---- MODULE Spec2Model ----
(***************************************************************************)
(* Model of duplicates.py: the model-name cleaner (clean_model_name), the  *)
(* field normalizer (normalize_for_comparison), the column validation of   *)
(* load_data and the three-stage matcher loop of find_matches.             *)
(*                                                                         *)
(* Text is a sequence of one-character strings, so that lowercasing,       *)
(* stripping, punctuation replacement and tokenizing are computed          *)
(* character by character as Python computes them.  A missing cell (NaN)   *)
(* is the one-element sequence NaN, which is no text.                      *)
(***************************************************************************)
EXTENDS Integers, Sequences, FiniteSets, TLC

VARIABLES
    master_df,            \* the 3Q25 dataset as loaded: [cols, rows]
    scraped_df,           \* the 4Q25 dataset as loaded (new_df in main)
    warning,              \* what load_data printed about the column sets
    scraped_norm,         \* find_matches: normalized working copy
    master_norm,          \* find_matches: normalized working copy
    idx,                  \* find_matches: index of the row the loop is at
    filtered_master,      \* find_matches: index labels of master_norm[mask]
    model_matches,        \* find_matches: index labels of the Stage-2 result
    new_rows_list,        \* find_matches: indices classified NEW
    duplicate_rows_list,  \* find_matches: indices classified DUPLICATE
    new_rows,             \* find_matches: returned frame of NEW rows
    duplicate_rows,       \* find_matches: returned frame of DUPLICATE rows
    model_name,           \* clean_model_name: the argument
    cleaned,              \* clean_model_name(model_name)
    recleaned,            \* clean_model_name(cleaned)
    pc                    \* position in main / in the cleaner harness

vars == <<master_df, scraped_df, warning, scraped_norm, master_norm, idx,
          filtered_master, model_matches, new_rows_list, duplicate_rows_list,
          new_rows, duplicate_rows, model_name, cleaned, recleaned, pc>>

matchVars == <<master_df, scraped_df, warning, scraped_norm, master_norm, idx,
               filtered_master, model_matches, new_rows_list,
               duplicate_rows_list, new_rows, duplicate_rows>>

cleanVars == <<model_name, cleaned, recleaned>>

----------------------------------------------------------------------------
(* Bounds of the model. *)

\* longest model name drawn from Alphabet for the cleaner harness
MaxLen == 4
\* most rows of the master dataset
MaxMaster == 2
\* most rows of the candidate dataset
MaxCand == 2

----------------------------------------------------------------------------
(* Text. *)

\* pandas' missing value: what read_excel gives for an empty cell
NaN == <<"NaN">>

\* not yet assigned
None == <<"None">>

isna(v) == v = NaN

\* str.isspace(): the characters strip(), split() and \s treat as whitespace
Whitespace == {" ", "\t", "\n", "\r", "\f"}

UpperCase ==
    <<"A", "B", "C", "D", "E", "F", "G", "H", "I", "J", "K", "L", "M",
      "N", "O", "P", "Q", "R", "S", "T", "U", "V", "W", "X", "Y", "Z">>

LowerCase ==
    <<"a", "b", "c", "d", "e", "f", "g", "h", "i", "j", "k", "l", "m",
      "n", "o", "p", "q", "r", "s", "t", "u", "v", "w", "x", "y", "z">>

\* the lowercase letter of each uppercase letter
to_lower ==
    [c \in {UpperCase[i] : i \in DOMAIN UpperCase} |->
        LowerCase[CHOOSE i \in DOMAIN UpperCase : UpperCase[i] = c]]

lower_char(c) == IF c \in DOMAIN to_lower THEN to_lower[c] ELSE c

\* str.lower()
RECURSIVE lower(_)
lower(s) ==
    IF s = <<>> THEN <<>> ELSE <<lower_char(Head(s))>> \o lower(Tail(s))

\* str.strip(): leading and trailing whitespace removed
RECURSIVE lstrip(_)
lstrip(s) ==
    IF s # <<>> /\ Head(s) \in Whitespace THEN lstrip(Tail(s)) ELSE s

RECURSIVE rstrip(_)
rstrip(s) ==
    IF s # <<>> /\ s[Len(s)] \in Whitespace
    THEN rstrip(SubSeq(s, 1, Len(s) - 1))
    ELSE s

strip(s) == rstrip(lstrip(s))

\* str.replace(char, rep) for a one-character pattern: the text itself
\* when char does not occur in it
RECURSIVE replace_each(_, _, _)
replace_each(s, char, rep) ==
    IF s = <<>> THEN <<>>
    ELSE (IF Head(s) = char THEN rep ELSE <<Head(s)>>)
             \o replace_each(Tail(s), char, rep)

replace(s, char, rep) ==
    IF \A i \in DOMAIN s : s[i] # char THEN s ELSE replace_each(s, char, rep)

punctuation_to_remove == <<".", "-", "_", "/", "(", ")", "[", "]", "{", "}", ":">>

\* the loop with cleaned.replace(char, ""): punctuation deleted
RECURSIVE remove_punctuation_deleting(_, _)
remove_punctuation_deleting(s, k) ==
    IF k > Len(punctuation_to_remove) THEN s
    ELSE remove_punctuation_deleting(replace(s, punctuation_to_remove[k], <<>>), k + 1)

\* for char in punctuation_to_remove: cleaned = cleaned.replace(char, " ")
RECURSIVE remove_punctuation(_, _)
remove_punctuation(s, k) ==
    IF k > Len(punctuation_to_remove) THEN s
    ELSE remove_punctuation(replace(s, punctuation_to_remove[k], <<" ">>), k + 1)

\* re.sub(r"\s+", " ", s): every maximal run of whitespace becomes one space
RECURSIVE re_sub_spaces(_)
re_sub_spaces(s) ==
    IF s = <<>> THEN <<>>
    ELSE LET n    == Len(s)
             init == re_sub_spaces(SubSeq(s, 1, n - 1))
         IN  IF s[n] \notin Whitespace THEN Append(init, s[n])
             ELSE IF n > 1 /\ s[n - 1] \in Whitespace THEN init
             ELSE Append(init, " ")

\* str.split(): the maximal runs of non-whitespace, in order
RECURSIVE split(_)
split(s) ==
    IF s = <<>> THEN <<>>
    ELSE LET n    == Len(s)
             init == split(SubSeq(s, 1, n - 1))
         IN  IF s[n] \in Whitespace THEN init
             ELSE IF n > 1 /\ s[n - 1] \notin Whitespace
                  THEN [init EXCEPT ![Len(init)] = Append(@, s[n])]
             ELSE Append(init, <<s[n]>>)

\* " ".join(words)
RECURSIVE join(_)
join(words) ==
    IF words = <<>> THEN <<>>
    ELSE IF Len(words) = 1 THEN words[1]
    ELSE join(SubSeq(words, 1, Len(words) - 1)) \o <<" ">> \o words[Len(words)]

noise_terms ==
    { <<"n", "o", "t", "e", "b", "o", "o", "k">>,
      <<"l", "a", "p", "t", "o", "p">>,
      <<"g", "a", "m", "e", "r">>,
      <<"g", "a", "m", "i", "n", "g">>,
      <<"k", "i", "t">>,
      <<"b", "u", "n", "d", "l", "e">>,
      <<"o", "r", "d", "e", "n", "a", "d", "o", "r">>,
      <<"u", "l", "t", "r", "a", "b", "o", "o", "k">>,
      <<"a", "c", "e", "r">>,
      <<"d", "e", "l", "l">>,
      <<"h", "p">>,
      <<"l", "e", "n", "o", "v", "o">>,
      <<"a", "s", "u", "s">>,
      <<"m", "s", "i">>,
      <<"a", "p", "p", "l", "e">>,
      <<"m", "i", "c", "r", "o", "s", "o", "f", "t">>,
      <<"s", "a", "m", "s", "u", "n", "g">>,
      <<"l", "g">>,
      <<"h", "u", "a", "w", "e", "i">>,
      <<"r", "a", "z", "e", "r">>,
      <<"a", "l", "i", "e", "n", "w", "a", "r", "e">> }

is_noise(w) == w \in noise_terms

\* [w for w in words if w not in noise_terms]
filter_words(words) == SelectSeq(words, LAMBDA w : ~is_noise(w))

\* steps 3 and 4 of clean_model_name, on the lowercased and stripped text
despace(s) == strip(re_sub_spaces(remove_punctuation(s, 1)))

\* the noise terms filtered before the punctuation is replaced
clean_model_name_filter_first(v) ==
    IF isna(v) \/ v = <<>> THEN <<>>
    ELSE join(split(despace(join(filter_words(split(strip(lower(v))))))))

clean_model_name(v) ==
    IF isna(v) \/ v = <<>> THEN <<>>
    ELSE join(filter_words(split(despace(strip(lower(v))))))

----------------------------------------------------------------------------
(* The cleaner harness: clean_model_name applied to a model name, then to  *)
(* its own result.                                                         *)

\* characters the bounded model names are drawn from: two cases of a
\* letter, letters spelling a noise term (hp), a digit, a punctuation
\* character and two kinds of whitespace
Alphabet == {"H", "h", "p", "5", "-", " ", "\t"}

BoundedText == UNION {[1..n -> Alphabet] : n \in 0..MaxLen}

SampleCpu == <<"i", "7", "-", "1", "2", "7", "0", "0", "H">>

SampleAcer ==
    <<"A", "c", "e", "r", " ", "A", "s", "p", "i", "r", "e", " ", "5", " ",
      "A", "5", "1", "5", "-", "5", "6">>

ModelNames == BoundedText \cup {NaN, SampleCpu, SampleAcer}

EmptyFrame == [cols |-> {}, rows |-> <<>>]

InitMatchIdle ==
    /\ master_df = EmptyFrame
    /\ scraped_df = EmptyFrame
    /\ warning = None
    /\ scraped_norm = None
    /\ master_norm = None
    /\ idx = 0
    /\ filtered_master = <<>>
    /\ model_matches = <<>>
    /\ new_rows_list = <<>>
    /\ duplicate_rows_list = <<>>
    /\ new_rows = None
    /\ duplicate_rows = None

InitClean ==
    /\ model_name \in ModelNames
    /\ cleaned = None
    /\ recleaned = None
    /\ pc = "clean"
    /\ InitMatchIdle

CleanOnce ==
    /\ pc = "clean"
    /\ cleaned' = clean_model_name(model_name)
    /\ pc' = "cleaned"
    /\ UNCHANGED <<model_name, recleaned, matchVars>>

CleanTwice ==
    /\ pc = "cleaned"
    /\ recleaned' = clean_model_name(cleaned)
    /\ pc' = "recleaned"
    /\ UNCHANGED <<model_name, cleaned, matchVars>>

NextClean == CleanOnce \/ CleanTwice

SpecClean == InitClean /\ [][NextClean]_vars

----------------------------------------------------------------------------
(* Claims about clean_model_name, checked under SpecClean. *)

\* C7: clean_model_name is idempotent: cleaning the result of a cleaning
\* gives that result again, for every model name (missing, empty,
\* whitespace-only, only noise words or punctuation, or any other text).
C7_Idempotent == pc = "recleaned" => recleaned = cleaned

C7_Witness ==
    /\ pc = "recleaned"
    /\ model_name = <<"H", "p", "-", "5">>
    /\ cleaned = <<"5">>
    /\ recleaned = <<"5">>

\* The reference tokenization the claim C8 states: a separator is a
\* whitespace character or one of the punctuation characters; a token is a
\* maximal run of non-separators of the lowercased text.
IsSeparator(c) ==
    \/ c \in Whitespace
    \/ \E k \in DOMAIN punctuation_to_remove : punctuation_to_remove[k] = c

TokenSpans(t, Sep(_)) ==
    {sp \in (1..Len(t)) \X (1..Len(t)) :
        /\ sp[1] <= sp[2]
        /\ \A k \in sp[1]..sp[2] : ~Sep(t[k])
        /\ sp[1] = 1 \/ Sep(t[sp[1] - 1])
        /\ sp[2] = Len(t) \/ Sep(t[sp[2] + 1])}

RECURSIVE SpansInOrder(_)
SpansInOrder(S) ==
    IF S = {} THEN <<>>
    ELSE LET m == CHOOSE sp \in S : \A o \in S : sp[1] <= o[1]
         IN  <<m>> \o SpansInOrder(S \ {m})

TokensBy(t, Sep(_)) ==
    LET spans == SpansInOrder(TokenSpans(t, Sep))
    IN  [k \in 1..Len(spans) |-> SubSeq(t, spans[k][1], spans[k][2])]

LoweredText(v) == [i \in 1..Len(v) |-> lower_char(v[i])]

ExpectedTokens(v) ==
    SelectSeq(TokensBy(LoweredText(v), IsSeparator), LAMBDA w : w \notin noise_terms)

IsSpace(c) == c = " "

\* text whose tokens are joined by single spaces and nothing else
SingleSpaced(t) ==
    /\ \A i \in 1..Len(t) : t[i] \in Whitespace => t[i] = " "
    /\ t # <<>> => t[1] # " " /\ t[Len(t)] # " "
    /\ \A i \in 1..(Len(t) - 1) : ~(t[i] = " " /\ t[i + 1] = " ")

\* C8: for every non-missing model name the result's tokens are the tokens
\* of the lowercased input with punctuation and whitespace as separators,
\* the noise vocabulary removed, all other tokens kept in order and joined
\* by single spaces; "i7-12700H" gives "i7 12700h" and
\* "Acer Aspire 5 A515-56" gives "aspire 5 a515 56".
C8_TokenSequence ==
    (pc # "clean" /\ ~isna(model_name)) =>
        /\ TokensBy(cleaned, IsSpace) = ExpectedTokens(model_name)
        /\ SingleSpaced(cleaned)
        /\ model_name = SampleCpu =>
               cleaned = <<"i", "7", " ", "1", "2", "7", "0", "0", "h">>
        /\ model_name = SampleAcer =>
               cleaned = <<"a", "s", "p", "i", "r", "e", " ", "5", " ",
                           "a", "5", "1", "5", " ", "5", "6">>

C8_Witness ==
    /\ pc = "cleaned"
    /\ model_name = SampleAcer
    /\ TokensBy(cleaned, IsSpace) =
           << <<"a", "s", "p", "i", "r", "e">>, <<"5">>,
              <<"a", "5", "1", "5">>, <<"5", "6">> >>

----------------------------------------------------------------------------
(* Frames.  A frame is [cols, rows]: a set of column names and a sequence  *)
(* of rows, each a function from cols to a text or NaN.  read_excel gives  *)
(* a RangeIndex, so a row's index label is its position, from 0.           *)

MatchedCols ==
    {"Region", "Country", "Brand", "Model Name", "CPU Model", "GPU Model",
     "Resolution"}

DerivedCols ==
    {"region_norm", "country_norm", "brand_norm", "model_clean", "cpu_norm",
     "gpu_norm", "resolution_norm"}

len(df) == Len(df.rows)

\* df.iloc[i] for a position i, from 0
iloc_row(df, i) == df.rows[i + 1]

\* df.iloc[positions]: the rows at the listed positions, in the list's order
iloc(df, positions) ==
    [cols |-> df.cols,
     rows |-> [k \in 1..Len(positions) |-> iloc_row(df, positions[k])]]

\* the series without fillna("")
fillna_skipped(v) == v

\* Series.fillna("")
fillna(v) == IF isna(v) THEN <<>> ELSE v

\* Series.astype(str): text stays, a missing value becomes the text "nan"
astype_str(v) == IF isna(v) THEN <<"n", "a", "n">> ELSE v

\* df[col].fillna("").astype(str).str.strip().str.lower()
normalize_series(v) == lower(strip(astype_str(fillna(v))))

country_col(is_master) == IF is_master THEN "Country/territory" ELSE "Country"

\* the columns normalize_for_comparison reads, in the order it reads them
columns_read(is_master) ==
    <<"Region", country_col(is_master), "Brand", "Model Name", "CPU Model",
      "GPU Model", "Resolution">>

\* the row of the working copy: the row with its seven derived columns
normalize_row(row, is_master) ==
    [c \in (DOMAIN row) \cup DerivedCols |->
        CASE c = "region_norm"     -> normalize_series(row["Region"])
          [] c = "country_norm"    -> normalize_series(row[country_col(is_master)])
          [] c = "brand_norm"      -> normalize_series(row["Brand"])
          [] c = "model_clean"     -> clean_model_name(row["Model Name"])
          [] c = "cpu_norm"        -> normalize_series(row["CPU Model"])
          [] c = "gpu_norm"        -> normalize_series(row["GPU Model"])
          [] c = "resolution_norm" -> normalize_series(row["Resolution"])
          [] OTHER                 -> row[c]]

add_normalized_columns(df, is_master) ==
    [cols |-> df.cols \cup DerivedCols,
     rows |-> [k \in 1..len(df) |-> normalize_row(df.rows[k], is_master)]]

\* normalize_for_comparison(df, is_master): df[col] of an absent column
\* raises KeyError(col), at the first absent column in reading order;
\* otherwise the derived columns are added to a copy, so the caller's frame
\* (arg) is as before and the copy is returned (ret).
normalize_for_comparison(df, is_master) ==
    LET cr     == columns_read(is_master)
        absent == {k \in DOMAIN cr : cr[k] \notin df.cols}
    IN  IF absent # {}
        THEN [raised |-> TRUE,
              key    |-> cr[CHOOSE k \in absent : \A j \in absent : k <= j],
              arg    |-> df,
              ret    |-> None]
        ELSE [raised |-> FALSE,
              key    |-> "",
              arg    |-> df,
              ret    |-> add_normalized_columns(df, is_master)]

----------------------------------------------------------------------------
(* load_data: the column validation after the two reads. *)

\* lines 100-112: nothing is printed when the column sets are equal;
\* otherwise the warning lists each non-empty difference
column_warning(master_cols, new_cols) ==
    IF master_cols # new_cols
    THEN [printed |-> TRUE,
          missing_in_new    |-> master_cols \ new_cols,
          missing_in_master |-> new_cols \ master_cols]
    ELSE [printed |-> FALSE, missing_in_new |-> {}, missing_in_master |-> {}]

LoadData ==
    /\ pc = "load_data"
    /\ warning' = column_warning(master_df.cols, scraped_df.cols)
    /\ pc' = "normalize_scraped"
    /\ UNCHANGED <<master_df, scraped_df, scraped_norm, master_norm, idx,
                   filtered_master, model_matches, new_rows_list,
                   duplicate_rows_list, new_rows, duplicate_rows, cleanVars>>

----------------------------------------------------------------------------
(* find_matches. *)

\* line 165: scraped_norm = normalize_for_comparison(scraped_df, is_master=False)
NormalizeScraped ==
    /\ pc = "normalize_scraped"
    /\ \E r \in {normalize_for_comparison(scraped_df, FALSE)} :
           /\ scraped_df' = r.arg
           /\ scraped_norm' = r.ret
           /\ pc' = IF r.raised THEN "KeyError" ELSE "normalize_master"
    /\ UNCHANGED <<master_df, warning, master_norm, idx, filtered_master,
                   model_matches, new_rows_list, duplicate_rows_list,
                   new_rows, duplicate_rows, cleanVars>>

\* line 166: master_norm = normalize_for_comparison(master_df, is_master=False)
NormalizeMaster ==
    /\ pc = "normalize_master"
    /\ \E r \in {normalize_for_comparison(master_df, FALSE)} :
           /\ master_df' = r.arg
           /\ master_norm' = r.ret
           /\ pc' = IF r.raised THEN "KeyError" ELSE "stage1"
    /\ UNCHANGED <<scraped_df, warning, scraped_norm, idx, filtered_master,
                   model_matches, new_rows_list, duplicate_rows_list,
                   new_rows, duplicate_rows, cleanVars>>

\* frame[mask] is held as the index labels of its rows, in the frame's order
all_labels(df) == [k \in 1..len(df) |-> k - 1]

\* Stage 1 without the comparison of the region
stage1_filter_no_region(master, scraped_row) ==
    SelectSeq(all_labels(master),
        LAMBDA m :
            /\ iloc_row(master, m)["country_norm"] = scraped_row["country_norm"]
            /\ iloc_row(master, m)["brand_norm"] = scraped_row["brand_norm"])

\* lines 173-178: master rows equal on region, country and brand
stage1_filter(master, scraped_row) ==
    SelectSeq(all_labels(master),
        LAMBDA m :
            /\ iloc_row(master, m)["region_norm"] = scraped_row["region_norm"]
            /\ iloc_row(master, m)["country_norm"] = scraped_row["country_norm"]
            /\ iloc_row(master, m)["brand_norm"] = scraped_row["brand_norm"])

\* Stage 2 on the raw "Model Name" column
stage2_filter_raw(master, filtered, scraped_row) ==
    SelectSeq(filtered,
        LAMBDA m : iloc_row(master, m)["Model Name"] = scraped_row["Model Name"])

\* lines 186-188: of the Stage-1 rows, those equal on the cleaned model name
stage2_filter(master, filtered, scraped_row) ==
    SelectSeq(filtered,
        LAMBDA m : iloc_row(master, m)["model_clean"] = scraped_row["model_clean"])

\* Stage 3 without the comparison of the CPU
stage3_filter_no_cpu(master, matches, scraped_row) ==
    SelectSeq(matches,
        LAMBDA m :
            /\ iloc_row(master, m)["gpu_norm"] = scraped_row["gpu_norm"]
            /\ iloc_row(master, m)["resolution_norm"] =
                   scraped_row["resolution_norm"])

\* lines 196-200: of the Stage-2 rows, those equal on CPU, GPU and resolution
stage3_filter(master, matches, scraped_row) ==
    SelectSeq(matches,
        LAMBDA m :
            /\ iloc_row(master, m)["cpu_norm"] = scraped_row["cpu_norm"]
            /\ iloc_row(master, m)["gpu_norm"] = scraped_row["gpu_norm"]
            /\ iloc_row(master, m)["resolution_norm"] =
                   scraped_row["resolution_norm"])

\* list.append
append(list, x) == Append(list, x)

\* lines 171-183: the next row of scraped_norm, and Stage 1
Stage1 ==
    /\ pc = "stage1"
    /\ idx < len(scraped_norm)
    /\ LET f == stage1_filter(master_norm, iloc_row(scraped_norm, idx))
       IN  /\ filtered_master' = f
           /\ IF Len(f) = 0
              THEN /\ new_rows_list' = append(new_rows_list, idx)
                   /\ idx' = idx + 1
                   /\ pc' = "stage1"
              ELSE /\ pc' = "stage2"
                   /\ UNCHANGED <<new_rows_list, idx>>
    /\ UNCHANGED <<master_df, scraped_df, warning, scraped_norm, master_norm,
                   model_matches, duplicate_rows_list, new_rows,
                   duplicate_rows, cleanVars>>

\* Stage 2 without its continue: an unmatched row goes on to Stage 3
Stage2_NoContinue ==
    /\ pc = "stage2"
    /\ LET mm == stage2_filter(master_norm, filtered_master,
                               iloc_row(scraped_norm, idx))
       IN  /\ model_matches' = mm
           /\ new_rows_list' = IF Len(mm) = 0 THEN append(new_rows_list, idx)
                               ELSE new_rows_list
    /\ pc' = "stage3"
    /\ UNCHANGED <<master_df, scraped_df, warning, scraped_norm, master_norm,
                   idx, filtered_master, duplicate_rows_list, new_rows,
                   duplicate_rows, cleanVars>>

\* lines 185-193: Stage 2
Stage2 ==
    /\ pc = "stage2"
    /\ LET mm == stage2_filter(master_norm, filtered_master,
                               iloc_row(scraped_norm, idx))
       IN  /\ model_matches' = mm
           /\ IF Len(mm) = 0
              THEN /\ new_rows_list' = append(new_rows_list, idx)
                   /\ idx' = idx + 1
                   /\ pc' = "stage1"
              ELSE /\ pc' = "stage3"
                   /\ UNCHANGED <<new_rows_list, idx>>
    /\ UNCHANGED <<master_df, scraped_df, warning, scraped_norm, master_norm,
                   filtered_master, duplicate_rows_list, new_rows,
                   duplicate_rows, cleanVars>>

\* lines 195-207: Stage 3
Stage3 ==
    /\ pc = "stage3"
    /\ LET cgr == stage3_filter(master_norm, model_matches,
                                iloc_row(scraped_norm, idx))
       IN  IF Len(cgr) > 0
           THEN /\ duplicate_rows_list' = append(duplicate_rows_list, idx)
                /\ UNCHANGED new_rows_list
           ELSE /\ new_rows_list' = append(new_rows_list, idx)
                /\ UNCHANGED duplicate_rows_list
    /\ idx' = idx + 1
    /\ pc' = "stage1"
    /\ UNCHANGED <<master_df, scraped_df, warning, scraped_norm, master_norm,
                   filtered_master, model_matches, new_rows, duplicate_rows,
                   cleanVars>>

\* the output rows taken from the normalized working copy
output_source_normalized == scraped_norm

\* the frame the output rows are taken from (lines 210-211: scraped_df)
output_source == scraped_df

\* lines 209-216: the loop is over; the two frames are built and returned
Output ==
    /\ pc = "stage1"
    /\ idx = len(scraped_norm)
    /\ new_rows' = iloc(output_source, new_rows_list)
    /\ duplicate_rows' = iloc(output_source, duplicate_rows_list)
    /\ pc' = "done"
    /\ UNCHANGED <<master_df, scraped_df, warning, scraped_norm, master_norm,
                   idx, filtered_master, model_matches, new_rows_list,
                   duplicate_rows_list, cleanVars>>

----------------------------------------------------------------------------
(* The datasets the runs start from. *)

AllCols == MatchedCols \cup {"Country/territory"}

\* the row the rows of the pools are variations of
BaseRow ==
    [c \in AllCols |->
        CASE c = "Region"            -> <<"E", "U">>
          [] c = "Country"           -> <<"U", "S">>
          [] c = "Country/territory" -> <<"U", "S">>
          [] c = "Brand"             -> <<"A", "c", "e", "r">>
          [] c = "Model Name"        -> <<"A", "S", "P", "I", "R", "E", "-", "5">>
          [] c = "CPU Model"         -> <<"i", "7">>
          [] c = "GPU Model"         -> <<"r", "t", "x">>
          [] c = "Resolution"        -> <<"f", "h", "d">>]

with_value(row, col, v) == [row EXCEPT ![col] = v]

restrict(row, cols) == [c \in cols |-> row[c]]

LowerCaseRow ==
    with_value(with_value(with_value(BaseRow,
        "Region", <<"e", "u", " ">>),
        "Model Name", <<"a", "s", "p", "i", "r", "e", " ", "5">>),
        "CPU Model", <<"I", "7">>)

\* a master row without a CPU model, of a territory that differs from its
\* country
MissingCpuMaster ==
    with_value(with_value(BaseRow, "CPU Model", NaN),
        "Country/territory", <<"D", "E">>)

\* master rows: the base row; the row without a CPU model; a
\* whitespace-only CPU model; a model name of noise words only
MasterPool ==
    { BaseRow,
      MissingCpuMaster,
      with_value(BaseRow, "CPU Model", <<" ">>),
      with_value(BaseRow, "Model Name", <<"A", "c", "e", "r">>) }

\* candidate rows: the base row written in another case and punctuation; a
\* missing CPU model; another CPU model; another region
CandidatePool ==
    { LowerCaseRow,
      with_value(BaseRow, "CPU Model", NaN),
      with_value(BaseRow, "CPU Model", <<"i", "5">>),
      with_value(BaseRow, "Region", <<"A", "P">>) }

\* the frames of at most n rows over cols whose rows come from pool
Frames(cols, pool, n) ==
    {[cols |-> cols, rows |-> r] :
        r \in UNION {[1..k -> {restrict(row, cols) : row \in pool}] : k \in 0..n}}

InitCleanIdle ==
    /\ model_name = None
    /\ cleaned = None
    /\ recleaned = None

InitRun ==
    /\ warning = None
    /\ scraped_norm = None
    /\ master_norm = None
    /\ idx = 0
    /\ filtered_master = <<>>
    /\ model_matches = <<>>
    /\ new_rows_list = <<>>
    /\ duplicate_rows_list = <<>>
    /\ new_rows = None
    /\ duplicate_rows = None
    /\ pc = "load_data"
    /\ InitCleanIdle

\* both datasets hold every column the matcher reads; the master also holds
\* the territory column of its role
Init ==
    /\ master_df \in Frames(AllCols, MasterPool, MaxMaster)
    /\ scraped_df \in Frames(MatchedCols, CandidatePool, MaxCand)
    /\ InitRun

\* the column sets of the schema runs: every column, or all but one
ColumnSets == {AllCols} \cup {AllCols \ {c} : c \in AllCols}

SchemaMasterPool ==
    {BaseRow, with_value(BaseRow, "Country/territory", <<"D", "E">>)}

SchemaCandidatePool == {LowerCaseRow, with_value(BaseRow, "CPU Model", NaN)}

\* either dataset may lack any one column
InitSchema ==
    /\ \E mc \in ColumnSets : master_df \in Frames(mc, SchemaMasterPool, MaxMaster)
    /\ \E cc \in ColumnSets : scraped_df \in Frames(cc, SchemaCandidatePool, MaxCand)
    /\ InitRun

Next ==
    \/ LoadData
    \/ NormalizeScraped
    \/ NormalizeMaster
    \/ Stage1
    \/ Stage2
    \/ Stage3
    \/ Output


Spec == Init /\ [][Next]_vars

SpecSchema == InitSchema /\ [][Next]_vars

----------------------------------------------------------------------------
(* Claims about find_matches, checked under Spec. *)

\* a cell that is missing or the empty text
IsMissing(v) == isna(v) \/ v = <<>>

Elements(list) == {list[k] : k \in DOMAIN list}

NewSet == Elements(new_rows_list)

DuplicateSet == Elements(duplicate_rows_list)

\* the candidate indices the loop has classified
Processed == 0..(idx - 1)

\* both working copies exist: the run is in the loop or past it
Normalized == pc \in {"stage1", "stage2", "stage3", "done"}

Stage1Keys == {"region_norm", "country_norm", "brand_norm"}

Stage2Keys == {"model_clean"}

Stage3Keys == {"cpu_norm", "gpu_norm", "resolution_norm"}

\* master row m and candidate row i carry equal keys in the columns keys
SameKeys(m, i, keys) ==
    \A k \in keys : iloc_row(master_norm, m)[k] = iloc_row(scraped_norm, i)[k]

MasterLabels == 0..(len(master_df) - 1)

\* C1: at every point of the matcher loop the NEW and DUPLICATE lists are
\* disjoint and together hold exactly the indices processed so far, each
\* once; when the loop has ended the two lists, and the two returned
\* frames, together have as many entries as there are candidate records.
C1_Partition ==
    /\ NewSet \cap DuplicateSet = {}
    /\ NewSet \cup DuplicateSet = Processed
    /\ Cardinality(NewSet) = Len(new_rows_list)
    /\ Cardinality(DuplicateSet) = Len(duplicate_rows_list)
    /\ pc = "done" =>
           /\ Len(new_rows_list) + Len(duplicate_rows_list) = len(scraped_df)
           /\ len(new_rows) + len(duplicate_rows) = len(scraped_df)

C1_Witness ==
    /\ pc = "done"
    /\ len(scraped_df) = 2
    /\ Len(new_rows_list) = 1
    /\ Len(duplicate_rows_list) = 1

\* two raw model names, neither missing, that differ at most in case,
\* punctuation, spacing and noise words
SameModelTokens(a, b) ==
    /\ ~IsMissing(a)
    /\ ~IsMissing(b)
    /\ ExpectedTokens(a) = ExpectedTokens(b)

\* C2: a classified candidate is DUPLICATE whenever at least one master
\* record carries the same seven normalized keys, whatever other master
\* records there are; in the final classification also when the raw model
\* names differ only in case or punctuation ("ASPIRE-5" and "aspire 5").
C2_ExactMatchIsDuplicate ==
    Normalized =>
        /\ \A i \in Processed :
               (\E m \in MasterLabels :
                    SameKeys(m, i, Stage1Keys \cup Stage2Keys \cup Stage3Keys))
               => i \in DuplicateSet /\ i \notin NewSet
        /\ pc = "done" => \A i \in Processed :
               (\E m \in MasterLabels :
                    /\ SameKeys(m, i, Stage1Keys \cup Stage3Keys)
                    /\ SameModelTokens(iloc_row(master_df, m)["Model Name"],
                                       iloc_row(scraped_df, i)["Model Name"]))
               => i \in DuplicateSet /\ i \notin NewSet

\* the candidate "aspire 5" is a duplicate of the master "ASPIRE-5", beside
\* a master record that matches it only partly
C2_Witness ==
    /\ pc = "done"
    /\ master_df.rows = <<MissingCpuMaster, BaseRow>>
    /\ scraped_df.rows = <<restrict(LowerCaseRow, MatchedCols)>>
    /\ iloc_row(master_df, 1)["Model Name"] # iloc_row(scraped_df, 0)["Model Name"]
    /\ duplicate_rows_list = <<0>>

\* C3: a classified candidate is NEW when every master record equal to it
\* on the region, country, brand and model keys differs from it in at least
\* one of the CPU, GPU and resolution keys.
C3_VariantIsNew ==
    Normalized =>
        \A i \in Processed :
            (\A m \in MasterLabels :
                 SameKeys(m, i, Stage1Keys \cup Stage2Keys)
                 => ~SameKeys(m, i, Stage3Keys))
            => i \in NewSet /\ i \notin DuplicateSet

\* a candidate with another CPU than the one master record of its model
C3_Witness ==
    /\ pc = "done"
    /\ master_df.rows = <<BaseRow>>
    /\ len(scraped_df) = 1
    /\ iloc_row(scraped_df, 0)["CPU Model"] = <<"i", "5">>
    /\ SameKeys(0, 0, Stage1Keys \cup Stage2Keys)
    /\ 0 \in NewSet

NoStage1Match(i) == \A m \in MasterLabels : ~SameKeys(m, i, Stage1Keys)

\* C4: a candidate for which no master record has the same (region,
\* country, brand) keys is NEW whatever its other keys are, and the loop
\* is never at Stage 2 or Stage 3 for such a candidate.
C4_Stage1ShortCircuit ==
    Normalized =>
        /\ \A i \in Processed :
               NoStage1Match(i) => i \in NewSet /\ i \notin DuplicateSet
        /\ pc \in {"stage2", "stage3"} => ~NoStage1Match(idx)

\* a candidate of another region, equal to both master records on the
\* model, CPU, GPU and resolution keys, has just been classified at Stage 1
C4_Witness ==
    /\ pc = "stage1"
    /\ idx = 1
    /\ len(master_df) = 2
    /\ NoStage1Match(0)
    /\ \A m \in MasterLabels : SameKeys(m, 0, Stage2Keys \cup Stage3Keys)
    /\ new_rows_list = <<0>>
    /\ model_matches = <<>>

\* the rows of frame at the positions in S, in the frame's order
RowsAt(frame, S) ==
    LET labels == SelectSeq(all_labels(frame), LAMBDA i : i \in S)
    IN  [k \in 1..Len(labels) |-> iloc_row(frame, labels[k])]

\* C5: the two returned frames hold the candidate records as loaded, with
\* no derived key column, each in the candidate dataset's order: the NEW
\* frame is the rows classified NEW in ascending index order, and likewise
\* the DUPLICATE frame.
C5_OriginalRowsInOrder ==
    pc = "done" =>
        /\ scraped_df.cols \cap DerivedCols = {}
        /\ new_rows.cols = MatchedCols
        /\ duplicate_rows.cols = MatchedCols
        /\ \A k \in DOMAIN new_rows.rows : DOMAIN new_rows.rows[k] = MatchedCols
        /\ \A k \in DOMAIN duplicate_rows.rows :
               DOMAIN duplicate_rows.rows[k] = MatchedCols
        /\ new_rows.rows = RowsAt(scraped_df, NewSet)
        /\ duplicate_rows.rows = RowsAt(scraped_df, DuplicateSet)

\* two different candidates, both NEW, returned in their order, the first
\* still in its raw spelling
C5_Witness ==
    /\ pc = "done"
    /\ new_rows_list = <<0, 1>>
    /\ new_rows.rows[1] = restrict(LowerCaseRow, MatchedCols)
    /\ new_rows.rows[2] # new_rows.rows[1]
    /\ new_rows.rows[2] = iloc_row(scraped_df, 1)

\* C9: the country key of a master record is computed from its
\* "Country/territory" field and that of a candidate record from its
\* "Country" field.
C9_CountryFieldByRole ==
    Normalized =>
        /\ \A m \in MasterLabels :
               iloc_row(master_norm, m)["country_norm"] =
                   normalize_series(iloc_row(master_df, m)["Country/territory"])
        /\ \A i \in 0..(len(scraped_df) - 1) :
               iloc_row(scraped_norm, i)["country_norm"] =
                   normalize_series(iloc_row(scraped_df, i)["Country"])

\* the raw field each derived key column is computed from
FieldOf(k) ==
    CASE k = "region_norm"     -> "Region"
      [] k = "country_norm"    -> "Country"
      [] k = "brand_norm"      -> "Brand"
      [] k = "model_clean"     -> "Model Name"
      [] k = "cpu_norm"        -> "CPU Model"
      [] k = "gpu_norm"        -> "GPU Model"
      [] k = "resolution_norm" -> "Resolution"

\* every missing or empty cell of a frame has the empty key
MissingCellsHaveEmptyKey(raw, norm) ==
    \A r \in 0..(len(raw) - 1) : \A k \in DerivedCols :
        IsMissing(iloc_row(raw, r)[FieldOf(k)]) => iloc_row(norm, r)[k] = <<>>

\* a candidate and a master record both missing a field, and equal on the
\* other six keys, make the candidate a DUPLICATE
BothMissingIsDuplicate ==
    \A i \in Processed : \A m \in MasterLabels : \A k \in DerivedCols :
        ( /\ IsMissing(iloc_row(scraped_df, i)[FieldOf(k)])
          /\ IsMissing(iloc_row(master_df, m)[FieldOf(k)])
          /\ SameKeys(m, i, DerivedCols \ {k}) )
        => SameKeys(m, i, {k}) /\ i \in DuplicateSet /\ i \notin NewSet

\* C10 as amended: a missing or empty value never raises and has the empty
\* key; two records both missing a field are equal on it, so a candidate
\* equal to a master record on the other six keys is a DUPLICATE; and a
\* candidate missing a field differs on it from every master record whose
\* key for that field is not empty.
C10_MissingIsEmptyKey ==
    /\ pc # "KeyError"
    /\ Normalized =>
           /\ MissingCellsHaveEmptyKey(scraped_df, scraped_norm)
           /\ MissingCellsHaveEmptyKey(master_df, master_norm)
           /\ BothMissingIsDuplicate
           /\ \A i \in 0..(len(scraped_df) - 1) : \A m \in MasterLabels :
                  \A k \in DerivedCols :
                      ( /\ IsMissing(iloc_row(scraped_df, i)[FieldOf(k)])
                        /\ iloc_row(master_norm, m)[k] # <<>> )
                      => ~SameKeys(m, i, {k})

\* a candidate and the one master record, both without a CPU model: a
\* duplicate
C10_Witness ==
    /\ pc = "done"
    /\ master_df.rows = <<MissingCpuMaster>>
    /\ len(scraped_df) = 1
    /\ isna(iloc_row(scraped_df, 0)["CPU Model"])
    /\ iloc_row(scraped_norm, 0)["cpu_norm"] = <<>>
    /\ 0 \in DuplicateSet

\* C10 as stated: the same, with the last part for every master record
\* whose value of the field is present (neither missing nor empty).
C10_AsStated ==
    /\ pc # "KeyError"
    /\ Normalized =>
           /\ MissingCellsHaveEmptyKey(scraped_df, scraped_norm)
           /\ MissingCellsHaveEmptyKey(master_df, master_norm)
           /\ BothMissingIsDuplicate
           /\ \A i \in 0..(len(scraped_df) - 1) : \A m \in MasterLabels :
                  \A k \in DerivedCols :
                      ( /\ IsMissing(iloc_row(scraped_df, i)[FieldOf(k)])
                        /\ ~IsMissing(iloc_row(master_df, m)[FieldOf(k)]) )
                      => ~SameKeys(m, i, {k})

----------------------------------------------------------------------------
(* The claim about mismatched column sets, checked under SpecSchema. *)

\* C6: when the column sets differ the run does not fail: the warning
\* names the columns of each dataset that the other lacks, matching runs
\* to completion, and a column absent from a dataset gives the empty key
\* to every record of that dataset.
C6_MismatchTolerated ==
    (pc # "load_data" /\ master_df.cols # scraped_df.cols) =>
        /\ warning.printed
        /\ warning.missing_in_new = master_df.cols \ scraped_df.cols
        /\ warning.missing_in_master = scraped_df.cols \ master_df.cols
        /\ pc # "KeyError"
        /\ Normalized =>
               /\ \A i \in 0..(len(scraped_df) - 1) : \A k \in DerivedCols :
                      FieldOf(k) \notin scraped_df.cols =>
                          iloc_row(scraped_norm, i)[k] = <<>>
               /\ \A m \in MasterLabels : \A k \in DerivedCols :
                      FieldOf(k) \notin master_df.cols =>
                          iloc_row(master_norm, m)[k] = <<>>

====
